---------------------------- MODULE Spec2Model ----------------------------
(***************************************************************************)
(* A model of vector-fields.rs (src/src/main.rs): the particle collection, *)
(* the concurrent step update_particles (a scoped thread pool whose        *)
(* batches merge into one locked result buffer), the host loop calling     *)
(* State::update and State::draw, and the frame sink thread fed through an *)
(* mpsc channel.                                                           *)
(*                                                                         *)
(* Numbers are scaled down: an f32 is an integer of a small lattice, NaN   *)
(* or Inf; a u32 has U32_BITS bits; the generator StdRng is a fixed        *)
(* deterministic function of the seed and of the index of the draw.        *)
(***************************************************************************)
EXTENDS Integers, Sequences, FiniteSets, Bags, TLC

----------------------------------------------------------------------------
(* Program constants (main.rs 13-54), scaled down.                          *)

SCALE == 2
DX == -1
PARTICLE_LIFETIME == 6
EPSILON == 2
SUBSTEPS == 2
INITIAL_PARTICLES == 7
PARTICLES_PER_FRAME == 2
THREADS == 2
TASK_SIZE == 2
\* the "nothing up my sleeve" number XORed into the seed, cut to 2 * U32_BITS bits
XOR_KEY == 166
\* the exclusive end of the range of exponents in f: for i in 2..FIELD_END
FIELD_END == 4

\* width of a u32, in bits, and the number of values it has
U32_BITS == 4
U32 == 2 ^ U32_BITS
\* the largest finite magnitude of an f32
F32_MAX == 30
\* StdRng draws r.gen::<f32>() as RAND_DEN equally spaced values of [0, 1)
RAND_DEN == 12

----------------------------------------------------------------------------
(* Bounds of the model.                                                     *)

\* the configurations of LOOP_FRAMES explored are 1 .. MaxLoop
MaxLoop == 3
\* update_particles is not started once the frame counter has reached MaxFrames:
\* far enough for loop mode to reach its end of animation, t > 2 * LOOP_FRAMES
MaxFrames == 2 * MaxLoop + 2
\* draw is not called once MaxSent buffers have been sent
MaxSent == 4

----------------------------------------------------------------------------
(* f32 arithmetic: a finite value of the lattice, NaN, or an infinity.      *)

Fin(v) == [k |-> "fin", v |-> v]
NaN == [k |-> "nan", v |-> 0]
Inf == [k |-> "inf", v |-> 0]

Abs(v) == IF v < 0 THEN -v ELSE v

\* rounding of an exact result into f32: overflow gives an infinity
Round(v) == IF Abs(v) > F32_MAX THEN Inf ELSE Fin(v)

is_nan(x) == x.k = "nan"
is_finite(x) == x.k = "fin"

\* IEEE comparison x >= c for a finite c: false for NaN, true for +Inf
Ge(x, c) ==
    CASE x.k = "nan" -> FALSE
      [] x.k = "inf" -> TRUE
      [] OTHER -> x.v >= c

RECURSIVE IntPow(_, _)
IntPow(x, i) == IF i = 0 THEN 1 ELSE x * IntPow(x, i - 1)

\* exp(-i), the weight of the i-th term, as the reciprocal of a power of 3
ExpDen(i) == IntPow(3, i)

\* one iteration of the loop of f: x += x.powi(i) * exp(-i)
FieldTerm(x, i) ==
    IF ~is_finite(x) THEN x
    ELSE Round(x.v + (IntPow(x.v, i) \div ExpDen(i)))

RECURSIVE FieldFrom(_, _)
FieldFrom(x, i) == IF i >= FIELD_END THEN x ELSE FieldFrom(FieldTerm(x, i), i + 1)

\* the values of an f32
F32 == {Fin(v) : v \in (-F32_MAX) .. F32_MAX} \cup {NaN, Inf}

\* the loop of f run from each value
FieldValue == [x \in F32 |-> FieldFrom(x, 2)]

\* fn f(_t, x): the complex function the field derives from (the time is unused)
f(x) == FieldValue[x]

\* z / z.norm(): 0/0 and inf/inf are NaN, anything else has magnitude 1
Normalize(z) ==
    CASE z.k = "fin" /\ z.v > 0 -> Fin(1)
      [] z.k = "fin" /\ z.v < 0 -> Fin(-1)
      [] OTHER -> NaN

\* particle.position += z * (EPSILON / SUBSTEPS)
Advance(pos, z) ==
    IF is_finite(pos) /\ is_finite(z)
    THEN Round(pos.v + z.v * (EPSILON \div SUBSTEPS))
    ELSE NaN

\* Complex::norm_sqr
norm_sqr(z) ==
    CASE z.k = "fin" -> Round(z.v * z.v)
      [] z.k = "inf" -> Inf
      [] OTHER -> NaN

----------------------------------------------------------------------------
(* Particle::new: seeding.                                                  *)

\* self.t as u32: the low U32_BITS bits of the frame counter
AsU32(x) == x % U32

RECURSIVE BitXor(_, _, _)
BitXor(a, b, bits) ==
    IF bits = 0 THEN 0
    ELSE ((a + b) % 2) + 2 * BitXor(a \div 2, b \div 2, bits - 1)

\* mutant of EffectiveFrame: the frame index is never reduced
EffectiveFrame_NoModulo(L, t32) == t32

\* t %= LOOP_FRAMES, in loop mode only
EffectiveFrame(L, t32) == IF L > 1 THEN t32 % L ELSE t32

\* (((t as u64) << 32) | n as u64) ^ 0xCBF5...: the 64-bit seed of the generator
SeedKey(L, t32, n) ==
    BitXor(EffectiveFrame(L, t32) * U32 + n, XOR_KEY, 2 * U32_BITS)

\* the i-th r.gen::<f32>() of StdRng::seed_from_u64(seed), as a numerator over
\* RAND_DEN: a fixed function of the seed and of i alone
Gen(seed, i) == (seed * (7 + i) + 2 * (seed \div 16) + i * (i + 10)) % RAND_DEN

\* Color::rgb(0.8 + 0.2 * r * sigmoid(..), 0.45 + 0.2 * r * sigmoid(..), 0.23),
\* or the background colour with probability 0.3
NewColor(seed) ==
    IF 10 * Gen(seed, 4) < 3 * RAND_DEN
    THEN <<0, 0, 1>>
    ELSE <<8 + (Gen(seed, 2) \div 6), 4 + (Gen(seed, 3) \div 6), 2>>

\* (r * 3.0 - 1.5) * SCALE + DX, along the real axis
NewPosition(seed) == Fin(((3 * SCALE * Gen(seed, 0)) \div RAND_DEN) - ((3 * SCALE) \div 2) + DX)

\* r * PARTICLE_LIFETIME
NewLifetime(seed) == (Gen(seed, 5) * PARTICLE_LIFETIME) \div RAND_DEN

\* Particle::new(t, n)
Particle_new(L, t32, n) ==
    LET seed == SeedKey(L, t32, n)
        lifetime == NewLifetime(seed)
    IN [color |-> NewColor(seed),
        position |-> NewPosition(seed),
        old_position |-> NewPosition(seed),
        lifetime |-> lifetime,
        age |-> (Gen(seed, 6) * lifetime) \div RAND_DEN,
        updated |-> FALSE]

----------------------------------------------------------------------------
(* The body of a batch (main.rs 175-189): one particle, one frame.          *)

RECURSIVE Substeps(_, _)
Substeps(pos, k) ==
    IF k = 0 THEN pos ELSE Substeps(Advance(pos, Normalize(f(pos))), k - 1)

\* the SUBSTEPS substeps run from each position
SubstepsValue == [x \in F32 |-> Substeps(x, SUBSTEPS)]

\* mutant of Integrate: the integrator records the position of before the step
Integrate_SetsOld(p) ==
    [p EXCEPT !.updated = TRUE,
              !.age = p.age + 1,
              !.old_position = p.position,
              !.position = SubstepsValue[p.position]]

\* updated = true; age += 1.0; SUBSTEPS substeps along the normalized field
Integrate(p) ==
    [p EXCEPT !.updated = TRUE,
              !.age = p.age + 1,
              !.position = SubstepsValue[p.position]]

\* d = f(t, particle.position).norm_sqr()
Divergence(p) == norm_sqr(f(p.position))

\* mutant of Retired: age > lifetime instead of age >= lifetime
Retired_StrictAge(p) ==
    \/ p.age > p.lifetime
    \/ Ge(Divergence(p), 4 * SCALE * SCALE)
    \/ is_nan(Divergence(p))

\* mutant of Retired: the test d.is_nan() is missing
Retired_NoNaNTest(p) ==
    \/ p.age >= p.lifetime
    \/ Ge(Divergence(p), 4 * SCALE * SCALE)

\* age >= lifetime || d >= 4.0 * SCALE * SCALE || d.is_nan()
Retired(p) ==
    \/ p.age >= p.lifetime
    \/ Ge(Divergence(p), 4 * SCALE * SCALE)
    \/ is_nan(Divergence(p))

----------------------------------------------------------------------------
(* State.                                                                   *)

VARIABLES
    LOOP_FRAMES,     \* const LOOP_FRAMES: 1 for an infinite animation
    SAVING,          \* const SAVING
    ANIMATION_MODE,  \* const ANIMATION_MODE
    particles,       \* VectorFieldState.particles
    t,               \* VectorFieldState.t
    pc,              \* where the main thread is: idle (between calls of the host
                     \* loop), pool (inside pool.scoped), joined (update_particles
                     \* has returned), render (the body of draw), exited, panicked
    caller,          \* which of update and draw called update_particles
    taskSt,          \* per batch: queued, computed, locked, done
    task_buffer,     \* per batch: its local task_buffer
    res,             \* the result buffer inside the Mutex
    lock,            \* the batch holding the Mutex, or NoBatch
    quit,            \* tetra::window::quit has been called
    chan,            \* the mpsc channel: images sent and not yet received
    sent,            \* the number of images sent so far
    sinkPc,          \* the sink thread: off (not spawned), recv, save, dead
    sinkN,           \* the sink's counter n
    image,           \* the image the sink is saving
    files,           \* output/<n>.png: file number -> image
    serial,          \* the collection of the execution with the same calls whose
                     \* batches always merge in index order
    segments,        \* the polylines the last draw handed to the GeometryBuilder
    seeded           \* how many times each seed has been given to StdRng so far

vars == <<LOOP_FRAMES, SAVING, ANIMATION_MODE, particles, t, pc, caller, taskSt,
          task_buffer, res, lock, quit, chan, sent, sinkPc, sinkN, image, files,
          serial, segments, seeded>>

config == <<LOOP_FRAMES, SAVING, ANIMATION_MODE>>
poolVars == <<taskSt, task_buffer, res, lock>>
sinkVars == <<sinkPc, sinkN, image, files>>

NoBatch == -1
NoTasks == [n \in {} |-> <<>>]
NoImage == [seq |-> 0, t |-> 0]

Range(q) == {q[i] : i \in DOMAIN q}

\* the multiset of the elements of a sequence
BagOf(q) == [x \in Range(q) |-> Cardinality({i \in DOMAIN q : q[i] = x})]

----------------------------------------------------------------------------
(* update_particles (main.rs 157-207).                                      *)

\* for n in 0..(particles.len() / TASK_SIZE)
NumBatches(len) == len \div TASK_SIZE

Batches(len) == 0 .. (NumBatches(len) - 1)

\* mutant of BatchRange: let n = n * TASK_SIZE is missing
BatchRange_Unscaled(n, len) == {o \in n .. (n + TASK_SIZE - 1) : o < len}

\* for o in n..(n+TASK_SIZE) { if o >= particles.len() { break; } ..: the indices
\* (from 0) one batch reads
BatchRange(n, len) == {o \in (n * TASK_SIZE) .. (n * TASK_SIZE + TASK_SIZE - 1) : o < len}

\* the task_buffer of batch n once its loop has ended: the particles of its range,
\* integrated, without the retired ones, in index order
TaskBuffer(ps, n) ==
    LET range == BatchRange(n, Len(ps))
        first == CHOOSE o \in range : \A q \in range : o <= q
        moved == [i \in 1 .. Cardinality(range) |-> Integrate(ps[first + i])]
    IN SelectSeq(moved, LAMBDA p : ~Retired(p))

\* mutant of Newcomers: seeded with the frame counter after its increment
Newcomers_NextFrame(L, frame) ==
    [k \in 1 .. PARTICLES_PER_FRAME |-> Particle_new(L, AsU32(frame + 1), k - 1)]

\* for n in 0..PARTICLES_PER_FRAME { self.particles.push(Particle::new(self.t as u32, n)) }
Newcomers(L, frame) ==
    [k \in 1 .. PARTICLES_PER_FRAME |-> Particle_new(L, AsU32(frame), k - 1)]

\* the seeds that the calls Particle::new(self.t as u32, n) of a step give to StdRng
NewcomerSeeds(L, frame) ==
    [k \in 1 .. PARTICLES_PER_FRAME |-> SeedKey(L, AsU32(frame), k - 1)]

\* mutant of Replaced: the newcomers are put in front of the survivors
Replaced_NewcomersFirst(survivors, newcomers) == newcomers \o survivors

\* self.particles = res; then each newcomer is pushed
Replaced(survivors, newcomers) == survivors \o newcomers

\* the workers of the pool that are running a job
Busy == {n \in DOMAIN taskSt : taskSt[n] \in {"computed", "locked"}}

\* mutant of BarrierPassed: the scope waits for the running jobs only, not for
\* the queued ones
BarrierPassed_RunningOnly == Busy = {}

\* pool.scoped returns once every job it was given has run to its end
BarrierPassed == \A n \in DOMAIN taskSt : taskSt[n] = "done"

RECURSIVE MergeInOrder(_, _, _)
MergeInOrder(ps, n, nb) ==
    IF n >= nb THEN <<>> ELSE TaskBuffer(ps, n) \o MergeInOrder(ps, n + 1, nb)

\* one whole call of update_particles whose batches merge in index order
SerialStep(ps, L, frame) ==
    Replaced(MergeInOrder(ps, 0, NumBatches(Len(ps))), Newcomers(L, frame))

\* let mut pool = ..; let res = Mutex::new(..); pool.scoped(|scope| for n .. scope.execute(..))
StartPool(who) ==
    /\ t < MaxFrames
    /\ pc' = "pool"
    /\ caller' = who
    /\ taskSt' = [n \in Batches(Len(particles)) |-> "queued"]
    /\ task_buffer' = [n \in Batches(Len(particles)) |-> <<>>]
    /\ res' = <<>>
    /\ lock' = NoBatch

\* a free worker takes job n and runs its loop over the batch (main.rs 169-190)
Execute(n) ==
    /\ pc = "pool"
    /\ taskSt[n] = "queued"
    /\ Cardinality(Busy) < THREADS
    /\ taskSt' = [taskSt EXCEPT ![n] = "computed"]
    /\ task_buffer' = [task_buffer EXCEPT ![n] = TaskBuffer(particles, n)]
    /\ UNCHANGED <<config, particles, t, pc, caller, res, lock, quit, chan, sent,
                   sinkVars, serial, segments, seeded>>

\* match res.lock() { Ok(mut lock) => ..: the Mutex is never poisoned, since no
\* thread can panic while it holds it
Lock(n) ==
    /\ pc = "pool"
    /\ taskSt[n] = "computed"
    /\ lock = NoBatch
    /\ lock' = n
    /\ taskSt' = [taskSt EXCEPT ![n] = "locked"]
    /\ UNCHANGED <<config, particles, t, pc, caller, task_buffer, res, quit, chan,
                   sent, sinkVars, serial, segments, seeded>>

\* mutant of Merge: the result buffer is overwritten by the batch's buffer
Merge_Overwrite(n) ==
    /\ pc = "pool"
    /\ taskSt[n] = "locked"
    /\ lock = n
    /\ res' = task_buffer[n]
    /\ task_buffer' = [task_buffer EXCEPT ![n] = <<>>]
    /\ lock' = NoBatch
    /\ taskSt' = [taskSt EXCEPT ![n] = "done"]
    /\ UNCHANGED <<config, particles, t, pc, caller, quit, chan, sent, sinkVars,
                   serial, segments, seeded>>

\* mutant of Merge: the guard is not dropped, the Mutex stays locked
Merge_KeepsLock(n) ==
    /\ pc = "pool"
    /\ taskSt[n] = "locked"
    /\ lock = n
    /\ res' = res \o task_buffer[n]
    /\ task_buffer' = [task_buffer EXCEPT ![n] = <<>>]
    /\ lock' = n
    /\ taskSt' = [taskSt EXCEPT ![n] = "done"]
    /\ UNCHANGED <<config, particles, t, pc, caller, quit, chan, sent, sinkVars,
                   serial, segments, seeded>>

\* lock.append(&mut task_buffer), then the guard is dropped and the job ends
Merge(n) ==
    /\ pc = "pool"
    /\ taskSt[n] = "locked"
    /\ lock = n
    /\ res' = res \o task_buffer[n]
    /\ task_buffer' = [task_buffer EXCEPT ![n] = <<>>]
    /\ lock' = NoBatch
    /\ taskSt' = [taskSt EXCEPT ![n] = "done"]
    /\ UNCHANGED <<config, particles, t, pc, caller, quit, chan, sent, sinkVars,
                   serial, segments, seeded>>

\* the end of pool.scoped, then main.rs 202-206: self.particles = res and the
\* newcomers of this frame are pushed
Join ==
    /\ pc = "pool"
    /\ BarrierPassed
    /\ particles' = Replaced(res, Newcomers(LOOP_FRAMES, t))
    /\ serial' = SerialStep(serial, LOOP_FRAMES, t)
    /\ seeded' = seeded (+) BagOf(NewcomerSeeds(LOOP_FRAMES, t))
    /\ pc' = "joined"
    /\ taskSt' = NoTasks
    /\ task_buffer' = NoTasks
    /\ res' = <<>>
    /\ UNCHANGED <<config, t, caller, lock, quit, chan, sent, sinkVars, segments>>

\* mutant of Return: the frame counter advances by two
Return_SkipsFrame ==
    /\ pc = "joined"
    /\ t' = t + 2
    /\ pc' = IF caller = "update" THEN "idle" ELSE "render"
    /\ UNCHANGED <<config, particles, caller, poolVars, quit, chan, sent, sinkVars,
                   serial, segments, seeded>>

\* self.t += 1, after update_particles has returned (main.rs 219, 228)
Return ==
    /\ pc = "joined"
    /\ t' = t + 1
    /\ pc' = IF caller = "update" THEN "idle" ELSE "render"
    /\ UNCHANGED <<config, particles, caller, poolVars, quit, chan, sent, sinkVars,
                   serial, segments, seeded>>

----------------------------------------------------------------------------
(* The host loop: State::update and State::draw (main.rs 211-328).          *)

\* LOOP_FRAMES > 1 && self.t > 2 * LOOP_FRAMES
AnimationOver == LOOP_FRAMES > 1 /\ t > 2 * LOOP_FRAMES

\* fn update: the end-of-animation check, then the step unless ANIMATION_MODE
Update ==
    /\ pc = "idle"
    /\ quit' = (quit \/ AnimationOver)
    /\ IF ANIMATION_MODE
       THEN UNCHANGED <<pc, caller, poolVars>>
       ELSE StartPool("update")
    /\ UNCHANGED <<config, particles, t, chan, sent, sinkVars, serial, segments, seeded>>

\* fn draw, to its first lines: the step if ANIMATION_MODE
Draw ==
    /\ pc = "idle"
    /\ SAVING => sent < MaxSent
    /\ IF ANIMATION_MODE
       THEN StartPool("draw")
       ELSE pc' = "render" /\ UNCHANGED <<caller, poolVars>>
    /\ UNCHANGED <<config, particles, t, quit, chan, sent, sinkVars, serial, segments, seeded>>

\* for particle in self.particles.iter_mut(): an updated particle gives a segment
\* and particle.old_position = particle.position
Drawn(ps) ==
    [i \in 1 .. Len(ps) |->
        IF ps[i].updated THEN [ps[i] EXCEPT !.old_position = ps[i].position] ELSE ps[i]]

\* mutant of Segments: the flag updated is not looked at
Segments_All(ps) ==
    [i \in 1 .. Len(ps) |->
        [from |-> ps[i].old_position, to |-> ps[i].position, color |-> ps[i].color]]

\* if !particle.updated { continue; } .. builder.polyline(PARTICLE_SIZE, &line): the
\* lines [position, old_position] given to the builder, in the order of the collection
Segments(ps) ==
    LET shown == SelectSeq(ps, LAMBDA p : p.updated)
    IN [i \in 1 .. Len(shown) |->
          [from |-> shown[i].old_position, to |-> shown[i].position,
           color |-> shown[i].color]]

\* mutant of ShouldSend: the frame 2 * LOOP_FRAMES is sent too
ShouldSend_Inclusive ==
    /\ SAVING
    /\ \/ LOOP_FRAMES <= 1
       \/ t >= LOOP_FRAMES /\ t <= 2 * LOOP_FRAMES

\* if SAVING { if LOOP_FRAMES <= 1 {..} else if self.t >= L && self.t < 2 * L {..} }
ShouldSend ==
    /\ SAVING
    /\ \/ LOOP_FRAMES <= 1
       \/ t >= LOOP_FRAMES /\ t < 2 * LOOP_FRAMES

\* the rest of fn draw (main.rs 230-327): the segments, the bloom passes, and
\* self.image_tx.send(image_data).unwrap(), which panics once the receiver is gone
Render ==
    /\ pc = "render"
    /\ particles' = Drawn(particles)
    /\ serial' = Drawn(serial)
    /\ segments' = Segments(particles)
    /\ IF ~ShouldSend
       THEN pc' = "idle" /\ UNCHANGED <<chan, sent>>
       ELSE IF sinkPc = "dead"
       THEN pc' = "panicked" /\ UNCHANGED <<chan, sent>>
       ELSE /\ pc' = "idle"
            /\ chan' = Append(chan, [seq |-> sent + 1, t |-> t])
            /\ sent' = sent + 1
    /\ UNCHANGED <<config, t, caller, poolVars, quit, sinkVars, seeded>>

\* the host loop ends once quit has been called: main returns and the process ends
HostExit ==
    /\ pc = "idle"
    /\ quit
    /\ pc' = "exited"
    /\ UNCHANGED <<config, particles, t, caller, poolVars, quit, chan, sent,
                   sinkVars, serial, segments, seeded>>

----------------------------------------------------------------------------
(* The frame sink: the thread spawned by main (main.rs 334-346).            *)

ProcessAlive == pc \notin {"exited", "panicked"}

\* mutant of Receive: the newest image is handed over
Receive_Newest(q) == q[Len(q)]

\* for image_data in rx: the channel hands over the oldest image sent
Receive(q) == Head(q)

\* for image_data in rx { n += 1; ..
SinkRecv ==
    /\ ProcessAlive
    /\ sinkPc = "recv"
    /\ chan # <<>>
    /\ image' = Receive(chan)
    /\ chan' = Tail(chan)
    /\ sinkN' = sinkN + 1
    /\ sinkPc' = "save"
    /\ UNCHANGED <<config, particles, t, pc, caller, poolVars, quit, sent, files,
                   serial, segments, seeded>>

\* RgbaImage::from_raw(..).unwrap(); buffer.save(format!("output/{}.png", n)).unwrap()
SinkSave ==
    /\ ProcessAlive
    /\ sinkPc = "save"
    /\ files' = [k \in DOMAIN files \cup {sinkN} |-> IF k = sinkN THEN image ELSE files[k]]
    /\ image' = NoImage
    /\ sinkPc' = "recv"
    /\ UNCHANGED <<config, particles, t, pc, caller, poolVars, quit, chan, sent,
                   sinkN, serial, segments, seeded>>

\* one of the two unwraps fails: the thread panics and drops rx with what it holds
SinkPanic ==
    /\ ProcessAlive
    /\ sinkPc = "save"
    /\ sinkPc' = "dead"
    /\ image' = NoImage
    /\ chan' = <<>>
    /\ UNCHANGED <<config, particles, t, pc, caller, poolVars, quit, sent, sinkN,
                   files, serial, segments, seeded>>

----------------------------------------------------------------------------
(* The program.                                                             *)

\* VectorFieldState::new: (0..INITIAL_PARTICLES).map(|n| Particle::new(0, n as u32))
InitialParticles(L) == [i \in 1 .. INITIAL_PARTICLES |-> Particle_new(L, 0, i - 1)]

\* the seeds that these calls give to StdRng
InitialSeeds(L) == [i \in 1 .. INITIAL_PARTICLES |-> SeedKey(L, 0, i - 1)]

Init ==
    /\ LOOP_FRAMES \in 1 .. MaxLoop
    /\ SAVING \in BOOLEAN
    /\ ANIMATION_MODE \in BOOLEAN
    /\ particles = InitialParticles(LOOP_FRAMES)
    /\ serial = InitialParticles(LOOP_FRAMES)
    /\ t = 0
    /\ pc = "idle"
    /\ caller = "update"
    /\ taskSt = NoTasks
    /\ task_buffer = NoTasks
    /\ res = <<>>
    /\ lock = NoBatch
    /\ quit = FALSE
    /\ chan = <<>>
    /\ sent = 0
    /\ sinkPc = IF SAVING THEN "recv" ELSE "off"
    /\ sinkN = 0
    /\ image = NoImage
    /\ files = [k \in {} |-> NoImage]
    /\ segments = <<>>
    /\ seeded = BagOf(InitialSeeds(LOOP_FRAMES))

Executes == \E n \in DOMAIN taskSt : Execute(n)
Locks == \E n \in DOMAIN taskSt : Lock(n)
Merges == \E n \in DOMAIN taskSt : Merge(n)

Next ==
    \/ Update
    \/ Draw
    \/ Render
    \/ Executes
    \/ Locks
    \/ Merges
    \/ Join
    \/ Return
    \/ HostExit
    \/ SinkRecv
    \/ SinkSave
    \/ SinkPanic

Spec == Init /\ [][Next]_vars

\* the steps of a thread that is inside a call: the body of draw, the batches
\* of the pool, the end of the scope and the return of update_particles
Running == Render \/ Executes \/ Locks \/ Merges \/ Join \/ Return

\* the steps of the pool: a worker takes a job, a job takes the lock, a job merges
\* and ends, the scope ends
PoolStep == Executes \/ Locks \/ Merges \/ Join

\* the program built without SAVING: no sink thread is spawned (main.rs 334)
PoolInit == Init /\ ~SAVING

\* its steps: those of Next that are not the sink's
PoolNext ==
    \/ Update
    \/ Draw
    \/ Render
    \/ Executes
    \/ Locks
    \/ Merges
    \/ Join
    \/ Return
    \/ HostExit

\* The workers of the pool and the thread that waits for them are eventually
\* scheduled; nothing is assumed of the host loop. The sink thread shares no
\* state with the pool, so the pool is studied in the program without it.
PoolFairSpec == PoolInit /\ [][PoolNext]_vars /\ WF_vars(PoolStep)

\* The host loop keeps calling update and draw (tetra runs update at a fixed rate
\* and draw once per tick, so each of the two is called again and again whatever
\* the other does: strong fairness), and a thread inside a call is eventually
\* scheduled. Nothing forces the sink's writes to fail, or to succeed.
FairSpec ==
    /\ Spec
    /\ SF_vars(Update)
    /\ SF_vars(Draw)
    /\ WF_vars(Running)

----------------------------------------------------------------------------
(* Vocabulary of the properties.                                            *)

\* the step that ends update_particles: the barrier is passed, the collection replaced
JoinStep == pc = "pool" /\ pc' = "joined"

\* every particle a batch has kept so far, merged or not
Survivors == Range(res) \cup UNION {Range(task_buffer[n]) : n \in DOMAIN task_buffer}

\* the batches whose loop has run
Computed == {n \in DOMAIN taskSt : taskSt[n] # "queued"}

\* the particles (after integration) the batches whose loop has run have read
Integrated ==
    {Integrate(particles[o + 1]) : o \in UNION {BatchRange(n, Len(particles)) : n \in Computed}}

AllDone == \A n \in DOMAIN taskSt : taskSt[n] = "done"

----------------------------------------------------------------------------
(* C1: population conservation.                                             *)

\* no particle of the collection meets the retirement test in this step
NoRetirement == \A i \in DOMAIN particles : ~Retired(Integrate(particles[i]))

\* C1: if no particle meets the retirement test during a call of update_particles,
\* the collection has exactly PARTICLES_PER_FRAME more particles after the call
\* than before it.
C1_PopulationConserved ==
    [][JoinStep /\ NoRetirement => Len(particles') = Len(particles) + PARTICLES_PER_FRAME]_vars

----------------------------------------------------------------------------
(* C2: the result does not depend on the order in which batches merge.      *)

\* C2: whatever the order in which the batches complete and merge, the multiset
\* of particles after every step is that of the execution with the same calls
\* whose batches merge in index order; so any two executions that differ only in
\* the merge order hold the same multiset after every step.
C2_OrderIndependent == BagOf(particles) = BagOf(serial)

\* C2 witness: after several steps the collection is ordered differently from the
\* one of the in-order execution (the merge orders did differ).
C2_Witness == t >= 2 /\ pc = "idle" /\ particles # serial

----------------------------------------------------------------------------
(* C3: retirement by age.                                                   *)

\* C3: no particle of the collection ever has age > lifetime, and no particle a
\* batch keeps has (after the increment of its age) age >= lifetime.
C3_AgeWithinLifetime ==
    /\ \A i \in DOMAIN particles : particles[i].age <= particles[i].lifetime
    /\ \A p \in Survivors : p.age < p.lifetime

\* C3 witness: a batch has run over a particle whose incremented age reached its
\* lifetime while its field value was fine, and another particle was kept.
C3_Witness ==
    /\ \E p \in Integrated :
          /\ p.age >= p.lifetime
          /\ is_finite(Divergence(p))
          /\ ~Ge(Divergence(p), 4 * SCALE * SCALE)
    /\ Survivors # {}

----------------------------------------------------------------------------
(* C4: the divergence guard.                                                *)

FieldFine(p) ==
    /\ is_finite(p.position)
    /\ is_finite(Divergence(p))
    /\ Divergence(p).v < 4 * SCALE * SCALE

\* C4: a particle whose field value after the substeps has a NaN or infinite
\* squared magnitude, or one that is >= 4 * SCALE^2, is kept by no batch; so every
\* updated particle of the collection has a finite position, and every particle
\* at all has one.
C4_DivergenceGuard ==
    /\ \A p \in Survivors : FieldFine(p)
    /\ \A i \in DOMAIN particles :
          /\ is_finite(particles[i].position)
          /\ particles[i].updated => FieldFine(particles[i])

\* C4 witness: batches have run over a young particle whose squared magnitude is
\* NaN, over one whose squared magnitude is infinite and over one that diverged.
C4_Witness ==
    /\ \E p \in Integrated : p.age < p.lifetime /\ is_nan(Divergence(p))
    /\ \E p \in Integrated : Divergence(p) = Inf
    /\ \E p \in Integrated :
          is_finite(Divergence(p)) /\ Divergence(p).v >= 4 * SCALE * SCALE

----------------------------------------------------------------------------
(* C5: the barrier.                                                         *)

\* C5: while a batch of the step has not completed its merge the collection is
\* not modified and update_particles does not return; the collection is replaced
\* only once every batch is done, by the whole merged result; and the body of
\* draw runs only when no batch exists.
C5_HardBarrier ==
    /\ [](pc = "render" => DOMAIN taskSt = {})
    /\ [][/\ (pc = "pool" /\ ~AllDone) => (particles' = particles /\ pc' = "pool")
          /\ particles' # particles =>
                \/ pc = "render"
                \/ /\ pc = "pool" /\ AllDone /\ lock = NoBatch
                   /\ BagOf(res) = BagOf(MergeInOrder(particles, 0, NumBatches(Len(particles))))]_vars

\* C5 witness: one batch holds the lock of the result buffer while another one has
\* run its loop and a third one has merged.
C5_Witness ==
    /\ pc = "pool"
    /\ \E n, m, k \in DOMAIN taskSt :
          taskSt[n] = "locked" /\ taskSt[m] = "computed" /\ taskSt[k] = "done"

----------------------------------------------------------------------------
(* C6: loop periodicity of the seeds.                                       *)

\* the last PARTICLES_PER_FRAME particles of a collection
LastPushed(ps) ==
    [k \in 1 .. PARTICLES_PER_FRAME |-> ps[Len(ps) - PARTICLES_PER_FRAME + k]]

\* C6: in loop mode, at every frame t reached and for every slot n, the seed key
\* of Particle::new(t, n) is that of Particle::new(t + LOOP_FRAMES, n), the frame
\* index being the u32 that update_particles passes; and the newcomers a step
\* pushes at a frame t >= LOOP_FRAMES are the particles seeded LOOP_FRAMES frames
\* earlier.
C6_LoopPeriod ==
    /\ [](LOOP_FRAMES > 1 =>
            \A n \in 0 .. (U32 - 1) :
               SeedKey(LOOP_FRAMES, AsU32(t), n)
                 = SeedKey(LOOP_FRAMES, AsU32(t + LOOP_FRAMES), n))
    /\ [][JoinStep /\ LOOP_FRAMES > 1 /\ t >= LOOP_FRAMES =>
            LastPushed(particles')
              = [k \in 1 .. PARTICLES_PER_FRAME |->
                   Particle_new(LOOP_FRAMES, AsU32(t - LOOP_FRAMES), k - 1)]]_vars

\* C6 witness: in loop mode a step has pushed the newcomers of a frame that has
\* a frame one loop earlier, and they differ from those of the frame before.
C6_Witness ==
    /\ LOOP_FRAMES > 1
    /\ pc = "joined"
    /\ t >= LOOP_FRAMES
    /\ LastPushed(particles)
         # [k \in 1 .. PARTICLES_PER_FRAME |-> Particle_new(LOOP_FRAMES, AsU32(t - 1), k - 1)]

----------------------------------------------------------------------------
(* C7: the newcomers of a step and the frame counter.                       *)

\* C7: the step that ends update_particles replaces the collection by the merged
\* survivors followed by exactly PARTICLES_PER_FRAME newcomers, the particles
\* seeded (t, 0) .. (t, PARTICLES_PER_FRAME - 1) for the frame counter t of before
\* the increment, whatever the interleaving of the batches was; the frame counter
\* then advances by exactly 1, and it changes at no other moment.
C7_NewcomersThenFrame ==
    [][/\ pc = "pool" /\ pc' # "pool" =>
             /\ pc' = "joined"
             /\ t' = t
             /\ Len(particles') = Len(res) + PARTICLES_PER_FRAME
             /\ \A i \in 1 .. Len(res) : particles'[i] = res[i]
             /\ \A k \in 1 .. PARTICLES_PER_FRAME :
                   particles'[Len(res) + k] = Particle_new(LOOP_FRAMES, AsU32(t), k - 1)
       /\ pc = "joined" /\ pc' # "joined" => t' = t + 1 /\ particles' = particles
       /\ t' # t => pc = "joined"]_vars

\* C7 witness: a step at a frame after the first has kept survivors and pushed
\* the newcomers behind them.
C7_Witness == pc = "joined" /\ t >= 1 /\ Len(particles) > PARTICLES_PER_FRAME

----------------------------------------------------------------------------
(* C8: the frame sink.                                                      *)

\* C8: the sink takes the images in the order they were sent and numbers the
\* files 1, 2, ..: file k holds the k-th image sent, the files written are 1 .. m
\* for some m with none skipped, and the image being saved is the sinkN-th one
\* sent, whose file is not written yet.
C8_SinkInSendOrder ==
    /\ \A k \in DOMAIN files : files[k].seq = k
    /\ DOMAIN files = 1 .. Cardinality(DOMAIN files)
    /\ sinkPc = "save" => image.seq = sinkN /\ DOMAIN files = 1 .. (sinkN - 1)
    /\ sinkPc = "recv" => DOMAIN files = 1 .. sinkN
    /\ sinkPc # "dead" => \A i \in DOMAIN chan : chan[i].seq = sinkN + i

\* C8 witness: two files are written, a third image is being saved and a fourth
\* one waits in the channel.
C8_Witness ==
    /\ Cardinality(DOMAIN files) = 2
    /\ sinkPc = "save"
    /\ chan # <<>>

----------------------------------------------------------------------------
(* C9: which frames are sent to the sink.                                   *)

\* C9: an image is sent only when saving is enabled and, in loop mode, only
\* while LOOP_FRAMES <= t < 2 * LOOP_FRAMES; without loop mode every draw that
\* returns has sent one image.
C9_SentFrames ==
    [][/\ sent' # sent =>
             /\ SAVING
             /\ sent' = sent + 1
             /\ chan' = Append(chan, [seq |-> sent + 1, t |-> t])
             /\ LOOP_FRAMES > 1 => (LOOP_FRAMES <= t /\ t < 2 * LOOP_FRAMES)
       /\ (pc = "render" /\ pc' = "idle" /\ SAVING /\ LOOP_FRAMES <= 1) =>
             sent' = sent + 1]_vars

\* C9 witness: in loop mode with saving enabled, an image has been sent and the
\* animation has gone past the frames that are sent.
C9_Witness ==
    /\ SAVING
    /\ LOOP_FRAMES > 1
    /\ sent >= 1
    /\ t >= 2 * LOOP_FRAMES
    /\ pc = "idle"

----------------------------------------------------------------------------
(* C10: the end of the animation.                                           *)

\* C10: in loop mode the program eventually requests its termination; it does so
\* only at the start of an update call in which t > 2 * LOOP_FRAMES, when no batch
\* exists; without loop mode it never requests its termination.
C10_EndOfAnimation ==
    /\ (LOOP_FRAMES > 1) ~> quit
    /\ [][quit' # quit =>
             /\ pc = "idle"
             /\ DOMAIN taskSt = {}
             /\ LOOP_FRAMES > 1
             /\ t > 2 * LOOP_FRAMES]_vars
    /\ [](LOOP_FRAMES <= 1 => ~quit)

----------------------------------------------------------------------------
(* C11: the merge of the batches into the result buffer.                    *)

RECURSIVE MergedOf(_, _, _)
\* the survivor lists of the batches of a set, one after the other
MergedOf(ps, n, done) ==
    IF n >= NumBatches(Len(ps)) THEN <<>>
    ELSE (IF n \in done THEN TaskBuffer(ps, n) ELSE <<>>) \o MergedOf(ps, n + 1, done)

\* the batches that have merged
Done == {n \in DOMAIN taskSt : taskSt[n] = "done"}

\* C11: under every interleaving the result buffer holds exactly the survivor
\* lists of the batches that have merged, each survivor once (after the barrier:
\* of all the batches); a batch's buffer holds its own survivor list from the end
\* of its loop to its merge and is empty otherwise; it is written only by its
\* batch, and it is appended whole to the result buffer, once, by the batch that
\* holds the lock.
C11_MergeIsDisjointUnion ==
    /\ [](pc = "pool" =>
            /\ BagOf(res) = BagOf(MergedOf(particles, 0, Done))
            /\ \A n \in DOMAIN taskSt :
                  task_buffer[n] = IF taskSt[n] \in {"computed", "locked"}
                                   THEN TaskBuffer(particles, n) ELSE <<>>
            /\ lock # NoBatch => taskSt[lock] = "locked"
            /\ \A n \in DOMAIN taskSt : taskSt[n] = "locked" => lock = n)
    /\ [][pc = "pool" /\ pc' = "pool" =>
            /\ \A n \in DOMAIN taskSt :
                  task_buffer'[n] # task_buffer[n] =>
                     \/ taskSt[n] = "queued" /\ taskSt'[n] = "computed"
                     \/ taskSt[n] = "locked" /\ taskSt'[n] = "done" /\ lock = n
            /\ res' # res =>
                  \E n \in DOMAIN taskSt :
                     /\ lock = n /\ taskSt[n] = "locked" /\ taskSt'[n] = "done"
                     /\ res' = res \o task_buffer[n]
            /\ \A n \in DOMAIN taskSt : taskSt[n] = "done" => taskSt'[n] = "done"]_vars
    /\ [][JoinStep => BagOf(res) = BagOf(MergeInOrder(particles, 0, NumBatches(Len(particles))))]_vars

\* C11 witness: every batch has merged, two of them at least kept survivors, and
\* the result buffer is not in index order.
C11_Witness ==
    /\ pc = "pool"
    /\ AllDone
    /\ Cardinality({n \in DOMAIN taskSt : TaskBuffer(particles, n) # <<>>}) >= 2
    /\ res # MergeInOrder(particles, 0, NumBatches(Len(particles)))

----------------------------------------------------------------------------
(* C12: the index ranges of the batches.                                    *)

\* C12: the batches of a step are numbered 0 .. len / TASK_SIZE - 1, and batch n
\* reads a contiguous range of indices that starts at n * TASK_SIZE and lies
\* within [n * TASK_SIZE, (n + 1) * TASK_SIZE) and within [0, len); the ranges of
\* two batches are disjoint.
C12_DisjointRanges ==
    pc = "pool" =>
       LET len == Len(particles) IN
       /\ DOMAIN taskSt = Batches(len)
       /\ \A n \in DOMAIN taskSt :
             /\ BatchRange(n, len) # {}
             /\ \A o \in BatchRange(n, len) :
                   /\ n * TASK_SIZE <= o /\ o < (n + 1) * TASK_SIZE
                   /\ 0 <= o /\ o < len
                   /\ \A q \in (n * TASK_SIZE) .. o : q \in BatchRange(n, len)
       /\ \A n, m \in DOMAIN taskSt :
             n # m => BatchRange(n, len) \cap BatchRange(m, len) = {}

\* C12 witness: a step with three batches over a collection whose length is not
\* a multiple of TASK_SIZE, all three having run.
C12_Witness ==
    /\ pc = "pool"
    /\ Cardinality(DOMAIN taskSt) >= 3
    /\ Len(particles) % TASK_SIZE # 0
    /\ Computed = DOMAIN taskSt

----------------------------------------------------------------------------
(* C14: a failure of the frame sink.                                        *)

\* C14: once an encode or a write of the sink has failed, only the sink thread
\* has ended: the thread that simulates and renders has not been terminated,
\* whatever it has sent since.
C14_SinkFailureContained == sinkPc = "dead" => pc # "panicked"

----------------------------------------------------------------------------
(* C15: what a step and a draw write in a particle.                         *)

\* p is q after one integration step as far as the fields other than position
\* go: color, lifetime and old_position kept, age one more, updated set
SteppedFrom(p, q) ==
    /\ p.color = q.color
    /\ p.lifetime = q.lifetime
    /\ p.old_position = q.old_position
    /\ p.age = q.age + 1
    /\ p.updated

\* C15: every particle a batch keeps is a particle of its range with the same
\* color, lifetime and old_position, its age increased by exactly 1 and updated
\* set, and so is every survivor update_particles puts in the collection; a
\* newly constructed particle has old_position = position; and draw changes
\* nothing of a particle but old_position, which it sets to position for the
\* updated particles and leaves alone for the others.
C15_FrameOfAStep ==
    /\ [][\A n \in DOMAIN taskSt :
             (pc = "pool" /\ taskSt[n] = "queued" /\ taskSt'[n] = "computed") =>
                \A j \in DOMAIN task_buffer'[n] :
                   \E o \in BatchRange(n, Len(particles)) :
                      SteppedFrom(task_buffer'[n][j], particles[o + 1])]_vars
    /\ [][JoinStep =>
             /\ \A i \in 1 .. (Len(particles') - PARTICLES_PER_FRAME) :
                   \E j \in DOMAIN particles : SteppedFrom(particles'[i], particles[j])
             /\ \A i \in (Len(particles') - PARTICLES_PER_FRAME + 1) .. Len(particles') :
                   particles'[i].old_position = particles'[i].position]_vars
    /\ [][(pc = "render" /\ pc' # "render") =>
             /\ Len(particles') = Len(particles)
             /\ \A i \in DOMAIN particles :
                   /\ particles'[i] = [particles[i] EXCEPT !.old_position = particles'[i].old_position]
                   /\ particles'[i].old_position =
                         IF particles[i].updated THEN particles[i].position
                         ELSE particles[i].old_position]_vars
    /\ [][particles' # particles => (JoinStep \/ pc = "render")]_vars

\* C15 witness: a batch has kept a particle that an earlier step had moved and
\* that no draw has seen since: its old_position is not the position it had
\* before this step.
C15_Witness ==
    /\ pc = "pool"
    /\ \E n \in Computed :
          /\ task_buffer[n] # <<>>
          /\ \A o \in BatchRange(n, Len(particles)) :
                /\ particles[o + 1].updated
                /\ particles[o + 1].old_position # particles[o + 1].position

----------------------------------------------------------------------------
(* C16: which particles the renderer draws.                                 *)

\* the indices of the particles whose flag updated is set
UpdatedIndices(ps) == {i \in DOMAIN ps : ps[i].updated}

\* the line draw builds for a particle
SegmentOf(p) == [from |-> p.old_position, to |-> p.position, color |-> p.color]

\* C16: a draw gives the builder exactly one line per particle whose flag updated
\* is set and none for the others; in every state draw can observe, the particles
\* whose flag is not set are exactly those no step has integrated since they
\* were seeded: the whole initial population before the first step, and after a
\* step the newcomers that this step pushed, at the end of the collection; so a
\* draw emits no line before the first step and, after a step, a line for each
\* particle but the last PARTICLES_PER_FRAME.
C16_DrawnIffUpdated ==
    /\ [][(pc = "render" /\ pc' # "render") =>
             /\ Len(segments') = Cardinality(UpdatedIndices(particles))
             /\ \A i \in UpdatedIndices(particles) :
                   \E k \in DOMAIN segments' : segments'[k] = SegmentOf(particles[i])
             /\ \A k \in DOMAIN segments' :
                   \E i \in UpdatedIndices(particles) : segments'[k] = SegmentOf(particles[i])
             /\ Len(segments') = IF t = 0 THEN 0 ELSE Len(particles) - PARTICLES_PER_FRAME]_vars
    /\ [][segments' # segments => pc = "render"]_vars
    /\ [](pc \in {"idle", "render"} =>
            IF t = 0
            THEN particles = InitialParticles(LOOP_FRAMES)
                 /\ UpdatedIndices(particles) = {}
            ELSE /\ UpdatedIndices(particles) = 1 .. (Len(particles) - PARTICLES_PER_FRAME)
                 /\ LastPushed(particles) = Newcomers(LOOP_FRAMES, t - 1))

\* C16 witness: after a step, a draw has emitted lines for the survivors and
\* none for the newcomers of the step.
C16_Witness ==
    /\ pc = "idle"
    /\ t >= 1
    /\ segments # <<>>
    /\ Len(segments) = Len(particles) - PARTICLES_PER_FRAME
    /\ \E i \in DOMAIN particles : ~particles[i].updated
    /\ \A k \in DOMAIN segments :
          \E i \in UpdatedIndices(particles) : segments[k].to = particles[i].position

----------------------------------------------------------------------------
(* C17: the buffers in flight when the process exits.                       *)

\* C17: when the main loop has ended and the process has exited, every buffer
\* that was sent has been written to its file, if the sink has not failed.
C17_NoBufferLost ==
    (pc = "exited" /\ sinkPc # "dead") => DOMAIN files = 1 .. sent

----------------------------------------------------------------------------
(* C18: one buffer per frame of the loop.                                   *)

\* C18: in loop mode with saving enabled, however the host loop interleaves its
\* calls of update and draw, the k-th buffer sent is that of the frame index
\* LOOP_FRAMES + k - 1 (one buffer for each index of [L, 2L), in increasing
\* order), and LOOP_FRAMES buffers have been sent when the animation ends.
C18_OnePerFrame ==
    /\ [][(SAVING /\ LOOP_FRAMES > 1 /\ sent' # sent) => t = LOOP_FRAMES + sent]_vars
    /\ []((SAVING /\ LOOP_FRAMES > 1 /\ quit) => sent = LOOP_FRAMES)

\* C18, amended: the same when ANIMATION_MODE is set, so that each draw runs
\* exactly one step before it renders.
C18_OnePerFrameAnimation ==
    /\ [][(ANIMATION_MODE /\ SAVING /\ LOOP_FRAMES > 1 /\ sent' # sent) =>
             t = LOOP_FRAMES + sent]_vars
    /\ []((ANIMATION_MODE /\ SAVING /\ LOOP_FRAMES > 1 /\ quit) => sent = LOOP_FRAMES)

\* C18 witness: with ANIMATION_MODE set, a loop longer than two frames has been
\* sent whole and the end of the animation has been requested.
C18_Witness ==
    /\ ANIMATION_MODE
    /\ SAVING
    /\ LOOP_FRAMES > 2
    /\ quit
    /\ sent = LOOP_FRAMES
    /\ sinkPc # "dead"

----------------------------------------------------------------------------
(* C19: the seeds of a run without loop.                                    *)

\* C19: without loop mode, every seed given to the generator so far (for the
\* initial population and for the newcomers of every step) has been given once,
\* and two different pairs (frame, slot) among those used so far have different
\* seeds.
C19_SeedsUsedOnce ==
    LOOP_FRAMES <= 1 =>
       /\ \A key \in DOMAIN seeded : seeded[key] = 1
       /\ \A f1, f2 \in 0 .. t :
             \A n1, n2 \in 0 .. (INITIAL_PARTICLES - 1) :
                <<f1, n1>> # <<f2, n2>> =>
                   SeedKey(LOOP_FRAMES, AsU32(f1), n1) # SeedKey(LOOP_FRAMES, AsU32(f2), n2)

----------------------------------------------------------------------------
(* C20: update_particles terminates.                                        *)

\* C20: under fair scheduling of the workers every call of update_particles
\* passes its barrier; as long as it has not, some step of the pool can be taken
\* (no interleaving of the batches deadlocks); a batch takes the lock only when
\* it is free and only once, after its loop, and a lock that is held is
\* eventually released.
C20_StepTerminates ==
    /\ (pc = "pool") ~> (pc = "joined")
    /\ (lock # NoBatch) ~> (lock = NoBatch)
    /\ [](pc = "pool" => ENABLED PoolStep)
    /\ [][(pc = "pool" /\ pc' = "pool") =>
             \A n \in DOMAIN taskSt :
                /\ (taskSt'[n] = "locked" /\ taskSt[n] # "locked") =>
                      (taskSt[n] = "computed" /\ lock = NoBatch /\ lock' = n)
                /\ taskSt[n] \in {"locked", "done"} => taskSt'[n] \in {"locked", "done"}
                /\ taskSt[n] = "done" => taskSt'[n] = "done"]_vars

\* C20 witness: every worker is busy, one batch holding the lock and the other
\* waiting for it, while a third batch is still queued.
C20_Witness ==
    /\ pc = "pool"
    /\ Cardinality(Busy) = THREADS
    /\ \E n, m, k \in DOMAIN taskSt :
          /\ lock = n /\ taskSt[n] = "locked"
          /\ taskSt[m] = "computed"
          /\ taskSt[k] = "queued"

=============================================================================
